---- MODULE Spec2Model ----
(***************************************************************************)
(* Model of the quiz session engine of src/App.tsx: the React component    *)
(* App, its state (one variable per useState cell), its event handlers     *)
(* and its timer effect, and the pure helpers shuffle and generateOptions. *)
(*                                                                         *)
(* Array indices: the source is 0-based, TLA+ sequences are 1-based.       *)
(* currentIndex keeps the source's 0-based value; deck[currentIndex] of    *)
(* the source is deck[currentIndex + 1] here.                              *)
(***************************************************************************)
EXTENDS Integers, Sequences, FiniteSets, TLC

(***************************************************************************)
(* Bounds of the model.                                                    *)
(***************************************************************************)
\* The timer budget. The source sets 20 * 60 seconds (src/App.tsx:5); the
\* model counts the same one-second ticks from a smaller budget so that the
\* timeout is reached, with every interleaving of the user's actions.
TIMER_START == 2
\* Wrong answers the user gives in one session (each one grows the deck).
MaxWrong == 2
\* Largest tallies of correct and of wrong answers handed to accuracy in
\* SpecAccuracy.
MaxCorrect == 23
MaxMissed == 17
\* Longest array handed to shuffle in SpecShuffle.
MaxShuffle == 4
\* Largest universe handed to generateOptions in SpecOptions.
MaxUniverse == 5
\* Number of different answer texts of the universes of SpecOptions.
MaxAnswer == 4

(***************************************************************************)
(* src/types.ts                                                            *)
(***************************************************************************)
Domain == {"NPF", "ACI", "NXOS", "UCS"}

GameState == {"SETUP", "PLAYING", "SUMMARY"}

\* A Question is a record [id, domain, a]: the prompt q is never read by the
\* logic, and ids, only ever compared, are numbers here.

\* The initial value of stats, and the value startGame sets.
ZeroStats == [correct |-> 0, wrong |-> 0, requeued |-> 0, totalAnswered |-> 0]

\* selectedOption: string | null
NULL == "null"

(***************************************************************************)
(* The question bank imported from './questions' (src/App.tsx:3): the      *)
(* static data of a session. Two questions of one domain, one of another,  *)
(* and two domains without a question. Two questions have the same answer  *)
(* text, so that the options generated for different cards differ.         *)
(***************************************************************************)
QuestionBank ==
    << [id |-> 1, domain |-> "NPF", a |-> "a1"],
       [id |-> 2, domain |-> "NPF", a |-> "a2"],
       [id |-> 3, domain |-> "ACI", a |-> "a2"] >>

VARIABLES
    questions,       \* the imported question list
    gameState, selectedDomain, deck, currentIndex,
    currentOptions, selectedOption, isAnswered,
    timer, isActive, stats,
    \* history variables (not program state)
    op,              \* the handler that ran last
    repeated,        \* a repeated handleOptionClick on this card: its option is
                     \* the "same" as the first one or an "other" one
    deck0,           \* the deck as startGame built it
    correctIds,      \* ids answered correctly in this session
    startedDirty,    \* startGame ran right after the exit from a session in progress
    missed           \* the cards answered wrongly in this session, in that order

vars == << questions, gameState, selectedDomain, deck, currentIndex,
           currentOptions, selectedOption, isAnswered, timer, isActive, stats,
           op, repeated, deck0, correctIds, startedDirty, missed >>

(***************************************************************************)
(* Helpers                                                                 *)
(***************************************************************************)
Range(s) == { s[k] : k \in 1..Len(s) }

Min(a, b) == IF a < b THEN a ELSE b

\* Swap writing arr[j] to position i only.
Swap_Overwrite(arr, i, j) == [arr EXCEPT ![i] = arr[j]]

\* [arr[i], arr[j]] = [arr[j], arr[i]]
Swap(arr, i, j) == [arr EXCEPT ![i] = arr[j], ![j] = arr[i]]

\* The loop of shuffle from index i (1-based; the source's i is i - 1) down:
\* every outcome of the draws j = floor(random() * (i + 1)).
RECURSIVE ShuffleFrom(_, _)
ShuffleFrom(arr, i) ==
    IF i <= 1 THEN { arr }
    ELSE UNION { ShuffleFrom(Swap(arr, i, j), i - 1) : j \in 1..i }

\* shuffle(array): the set of arrays it can return.
shuffle(array) == ShuffleFrom(array, Len(array))

\* A call shuffle(array): the argument as the call leaves it (the loop
\* writes to the copy newArr = [...array] only) and the array returned.
ShuffleCall(array) == { [array |-> array, newArr |-> r] : r \in shuffle(array) }

\* Array.from(new Set(xs)): first occurrences, in order.
RECURSIVE Unique(_)
Unique(xs) ==
    IF xs = << >> THEN << >>
    ELSE LET init == Unique(SubSeq(xs, 1, Len(xs) - 1))
             last == xs[Len(xs)]
         IN IF last \in Range(init) THEN init ELSE Append(init, last)

Answers(qs) == [k \in 1..Len(qs) |-> qs[k].a]

\* generateOptions always drawing from the pool of all other questions.
generateOptions_NoPreference(currentQ, allQuestions) ==
    LET NotCurrent(q) == q.id # currentQ.id
        pool == SelectSeq(allQuestions, NotCurrent)
        uniqueAnswers == Unique(Answers(pool))
        distractorSets == { SubSeq(s, 1, Min(3, Len(s))) : s \in shuffle(uniqueAnswers) }
    IN UNION { shuffle(Append(d, currentQ.a)) : d \in distractorSets }

\* generateOptions(currentQ, allQuestions): the set of arrays it can return.
generateOptions(currentQ, allQuestions) ==
    LET NotCurrent(q) == q.id # currentQ.id
        InDomain(q) == q.domain = currentQ.domain
        pool0 == SelectSeq(allQuestions, NotCurrent)
        sameDomainPool == SelectSeq(pool0, InDomain)
        pool == IF Len(sameDomainPool) >= 3 THEN sameDomainPool ELSE pool0
        uniqueAnswers == Unique(Answers(pool))
        distractorSets == { SubSeq(s, 1, Min(3, Len(s))) : s \in shuffle(uniqueAnswers) }
    IN UNION { shuffle(Append(d, currentQ.a)) : d \in distractorSets }

\* startGame's filter of the question list by the selected domain.
Filtered(qs, dom) ==
    LET Match(q) == q.domain = dom
    IN IF dom # "ALL" THEN SelectSeq(qs, Match) ELSE qs

\* const currentCard = deck[currentIndex]; undefined when out of range.
HasCurrentCard == currentIndex + 1 \in 1..Len(deck)

currentCard == deck[currentIndex + 1]

\* The timer effect of a render with timer = 0 in PLAYING has still to run
\* (its dependency timer has just changed). React runs the effects of a
\* commit before it processes the next update, so no handler is interleaved
\* between the tick that reaches 0 and the effect: the handlers below are
\* not enabled while the effect is pending.
EffectPending == timer = 0 /\ gameState = "PLAYING"

(***************************************************************************)
(* State after construction (the useState initial values).                 *)
(***************************************************************************)
Init ==
    /\ questions = QuestionBank
    /\ gameState = "SETUP"
    /\ selectedDomain = "ALL"
    /\ deck = << >>
    /\ currentIndex = 0
    /\ currentOptions = << >>
    /\ selectedOption = NULL
    /\ isAnswered = FALSE
    /\ timer = TIMER_START
    /\ isActive = FALSE
    /\ stats = ZeroStats
    /\ op = "init"
    /\ repeated = NULL
    /\ deck0 = << >>
    /\ correctIds = {}
    /\ startedDirty = FALSE
    /\ missed = << >>

(***************************************************************************)
(* Pieces of the handlers.                                                 *)
(***************************************************************************)
\* StatsAfter with the requeued tally forgotten.
StatsAfter_NoRequeue(prev, isCorrect) ==
    [ correct       |-> prev.correct + (IF isCorrect THEN 1 ELSE 0),
      wrong         |-> prev.wrong + (IF ~isCorrect THEN 1 ELSE 0),
      requeued      |-> prev.requeued,
      totalAnswered |-> prev.totalAnswered + 1 ]

\* StatsAfter counting only correct answers into totalAnswered.
StatsAfter_TotalOfCorrect(prev, isCorrect) ==
    [ correct       |-> prev.correct + (IF isCorrect THEN 1 ELSE 0),
      wrong         |-> prev.wrong + (IF ~isCorrect THEN 1 ELSE 0),
      requeued      |-> prev.requeued + (IF ~isCorrect THEN 1 ELSE 0),
      totalAnswered |-> prev.totalAnswered + (IF isCorrect THEN 1 ELSE 0) ]

\* The updater handed to setStats by handleOptionClick.
StatsAfter(prev, isCorrect) ==
    [ correct       |-> prev.correct + (IF isCorrect THEN 1 ELSE 0),
      wrong         |-> prev.wrong + (IF ~isCorrect THEN 1 ELSE 0),
      requeued      |-> prev.requeued + (IF ~isCorrect THEN 1 ELSE 0),
      totalAnswered |-> prev.totalAnswered + 1 ]

\* DeckAfter without the re-queue.
DeckAfter_NoRequeue(prev, card, isCorrect) == prev

\* DeckAfter moving the missed card to the tail instead of adding a copy.
DeckAfter_MoveToTail(prev, card, isCorrect) ==
    LET Other(q) == q.id # card.id
    IN IF ~isCorrect THEN Append(SelectSeq(prev, Other), card) ELSE prev

\* DeckAfter putting the missed card in front of the deck.
DeckAfter_Prepend(prev, card, isCorrect) ==
    IF ~isCorrect THEN << card >> \o prev ELSE prev

\* The re-queue of handleOptionClick: setDeck(prev => [...prev, currentCard]).
DeckAfter(prev, card, isCorrect) ==
    IF ~isCorrect THEN Append(prev, card) ELSE prev

\* if (isAnswered) return;
AlreadyAnswered_Never == FALSE

AlreadyAnswered == isAnswered

\* {isAnswered && (<button onClick={handleNext}> ...)}: the Next button is
\* rendered only once the card is answered; handleNext has no test of its own.
NextButtonShown_Always == TRUE

NextButtonShown == isAnswered

\* handleNext's test with the cursor one entry short.
HasNext_OffByOne == currentIndex < Len(deck) - 2

\* if (currentIndex < deck.length - 1)
HasNext == currentIndex < Len(deck) - 1

(***************************************************************************)
(* The handlers. Each is enabled where its control is rendered.            *)
(***************************************************************************)
\* <select onChange={(e) => setSelectedDomain(e.target.value)}>, in SETUP.
SetSelectedDomain(d) ==
    /\ gameState = "SETUP"
    /\ selectedDomain' = d
    /\ op' = "setSelectedDomain"
    /\ UNCHANGED << questions, gameState, deck, currentIndex, currentOptions,
                    selectedOption, isAnswered, timer, isActive, stats,
                    repeated, deck0, correctIds, startedDirty, missed >>

\* startGame without the reset of stats.
startGame_KeepsStats ==
    /\ gameState = "SETUP"
    /\ \E shuffledDeck \in shuffle(Filtered(questions, selectedDomain)) :
         /\ deck' = shuffledDeck
         /\ currentIndex' = 0
         /\ gameState' = "PLAYING"
         /\ timer' = TIMER_START
         /\ isActive' = TRUE
         /\ IF Len(shuffledDeck) > 0
            THEN /\ currentOptions' \in generateOptions(shuffledDeck[1], questions)
                 /\ isAnswered' = FALSE
                 /\ selectedOption' = NULL
            ELSE UNCHANGED << currentOptions, isAnswered, selectedOption >>
         /\ deck0' = shuffledDeck
    /\ op' = "startGame"
    /\ repeated' = NULL
    /\ correctIds' = {}
    /\ missed' = << >>
    /\ startedDirty' = ( /\ op = "handleExit"
                         /\ stats.correct > 0 /\ stats.wrong > 0
                         /\ currentIndex > 0 /\ timer < TIMER_START
                         /\ isAnswered /\ selectedOption # NULL )
    /\ UNCHANGED << questions, selectedDomain, stats >>

\* START QUIZ, rendered in SETUP.
startGame ==
    /\ gameState = "SETUP"
    /\ \E shuffledDeck \in shuffle(Filtered(questions, selectedDomain)) :
         /\ deck' = shuffledDeck
         /\ currentIndex' = 0
         /\ gameState' = "PLAYING"
         /\ timer' = TIMER_START
         /\ stats' = ZeroStats
         /\ isActive' = TRUE
         /\ IF Len(shuffledDeck) > 0
            THEN /\ currentOptions' \in generateOptions(shuffledDeck[1], questions)
                 /\ isAnswered' = FALSE
                 /\ selectedOption' = NULL
            ELSE UNCHANGED << currentOptions, isAnswered, selectedOption >>
         /\ deck0' = shuffledDeck
    /\ op' = "startGame"
    /\ repeated' = NULL
    /\ correctIds' = {}
    /\ missed' = << >>
    /\ startedDirty' = ( /\ op = "handleExit"
                         /\ stats.correct > 0 /\ stats.wrong > 0
                         /\ currentIndex > 0 /\ timer < TIMER_START
                         /\ isAnswered /\ selectedOption # NULL )
    /\ UNCHANGED << questions, selectedDomain >>

\* handleExit without setIsActive(false).
handleExit_KeepsTimer ==
    /\ gameState = "PLAYING"
    /\ ~EffectPending
    /\ gameState' = "SETUP"
    /\ op' = "handleExit"
    /\ UNCHANGED << questions, selectedDomain, deck, currentIndex, currentOptions,
                    selectedOption, isAnswered, timer, isActive, stats,
                    repeated, deck0, correctIds, startedDirty, missed >>

\* [ EXIT ], rendered in PLAYING.
handleExit ==
    /\ gameState = "PLAYING"
    /\ ~EffectPending
    /\ isActive' = FALSE
    /\ gameState' = "SETUP"
    /\ op' = "handleExit"
    /\ UNCHANGED << questions, selectedDomain, deck, currentIndex, currentOptions,
                    selectedOption, isAnswered, timer, stats,
                    repeated, deck0, correctIds, startedDirty, missed >>

\* Tick with the interval gone one second early.
Tick_StopsAtOne ==
    /\ isActive /\ timer > 1
    /\ timer' = timer - 1
    /\ op' = "tick"
    /\ UNCHANGED << questions, gameState, selectedDomain, deck, currentIndex,
                    currentOptions, selectedOption, isAnswered, isActive, stats,
                    repeated, deck0, correctIds, startedDirty, missed >>

\* Tick without the test timer > 0.
Tick_NoFloor ==
    /\ isActive
    /\ timer' = timer - 1
    /\ op' = "tick"
    /\ UNCHANGED << questions, gameState, selectedDomain, deck, currentIndex,
                    currentOptions, selectedOption, isAnswered, isActive, stats,
                    repeated, deck0, correctIds, startedDirty, missed >>

\* The interval callback of the timer effect: it exists while
\* isActive && timer > 0.
Tick ==
    /\ isActive /\ timer > 0
    /\ timer' = timer - 1
    /\ op' = "tick"
    /\ UNCHANGED << questions, gameState, selectedDomain, deck, currentIndex,
                    currentOptions, selectedOption, isAnswered, isActive, stats,
                    repeated, deck0, correctIds, startedDirty, missed >>

\* TimerEffect ending the session only once the current card is answered.
TimerEffect_OnlyWhenAnswered ==
    /\ ~(isActive /\ timer > 0)
    /\ timer = 0 /\ gameState = "PLAYING" /\ isAnswered
    /\ isActive' = FALSE
    /\ gameState' = "SUMMARY"
    /\ op' = "timerEffect"
    /\ UNCHANGED << questions, selectedDomain, deck, currentIndex, currentOptions,
                    selectedOption, isAnswered, timer, stats,
                    repeated, deck0, correctIds, startedDirty, missed >>

\* TimerEffect without the test of gameState.
TimerEffect_AnyPhase ==
    /\ ~(isActive /\ timer > 0)
    /\ timer = 0
    /\ isActive' = FALSE
    /\ gameState' = "SUMMARY"
    /\ op' = "timerEffect"
    /\ UNCHANGED << questions, selectedDomain, deck, currentIndex, currentOptions,
                    selectedOption, isAnswered, timer, stats,
                    repeated, deck0, correctIds, startedDirty, missed >>

\* The else branch of the timer effect.
TimerEffect ==
    /\ ~(isActive /\ timer > 0)
    /\ timer = 0 /\ gameState = "PLAYING"
    /\ isActive' = FALSE
    /\ gameState' = "SUMMARY"
    /\ op' = "timerEffect"
    /\ UNCHANGED << questions, selectedDomain, deck, currentIndex, currentOptions,
                    selectedOption, isAnswered, timer, stats,
                    repeated, deck0, correctIds, startedDirty, missed >>

\* An option button, rendered in PLAYING when there is a current card. The
\* buttons are disabled once the card is answered (line 244); the handler is
\* callable all the same and its own early return (line 109) decides. Wrong
\* answers are bounded by MaxWrong.
handleOptionClick(option) ==
    /\ gameState = "PLAYING" /\ HasCurrentCard
    /\ ~EffectPending
    /\ option \in Range(currentOptions)
    /\ isAnswered \/ option = currentCard.a \/ stats.wrong < MaxWrong
    /\ IF AlreadyAnswered
       THEN UNCHANGED << selectedOption, isAnswered, stats, deck, correctIds,
                         missed >>
       ELSE LET isCorrect == option = currentCard.a
            IN /\ selectedOption' = option
               /\ isAnswered' = TRUE
               /\ stats' = StatsAfter(stats, isCorrect)
               /\ deck' = DeckAfter(deck, currentCard, isCorrect)
               /\ correctIds' = IF isCorrect THEN correctIds \cup {currentCard.id}
                                ELSE correctIds
               /\ missed' = IF isCorrect THEN missed ELSE Append(missed, currentCard)
    /\ op' = "handleOptionClick"
    /\ repeated' = IF ~isAnswered THEN NULL
                    ELSE IF option = selectedOption THEN "same" ELSE "other"
    /\ UNCHANGED << questions, gameState, selectedDomain, currentIndex,
                    currentOptions, timer, isActive, deck0, startedDirty >>

\* handleNext generating the options for the card it leaves.
handleNext_StaleOptions ==
    /\ gameState = "PLAYING" /\ HasCurrentCard
    /\ NextButtonShown
    /\ ~EffectPending
    /\ IF HasNext
       THEN LET nextIndex == currentIndex + 1
            IN /\ currentIndex' = nextIndex
               /\ currentOptions' \in generateOptions(deck[nextIndex], questions)
               /\ isAnswered' = FALSE
               /\ selectedOption' = NULL
               /\ repeated' = NULL
               /\ UNCHANGED << isActive, gameState >>
       ELSE /\ isActive' = FALSE
            /\ gameState' = "SUMMARY"
            /\ UNCHANGED << currentIndex, currentOptions, isAnswered,
                            selectedOption, repeated >>
    /\ op' = "handleNext"
    /\ UNCHANGED << questions, selectedDomain, deck, timer, stats,
                    deck0, correctIds, startedDirty, missed >>

\* NEXT QUESTION / FINISH EXAM, rendered in PLAYING when there is a current
\* card and it is answered.
handleNext ==
    /\ gameState = "PLAYING" /\ HasCurrentCard
    /\ NextButtonShown
    /\ ~EffectPending
    /\ IF HasNext
       THEN LET nextIndex == currentIndex + 1
            IN /\ currentIndex' = nextIndex
               /\ currentOptions' \in generateOptions(deck[nextIndex + 1], questions)
               /\ isAnswered' = FALSE
               /\ selectedOption' = NULL
               /\ repeated' = NULL
               /\ UNCHANGED << isActive, gameState >>
       ELSE /\ isActive' = FALSE
            /\ gameState' = "SUMMARY"
            /\ UNCHANGED << currentIndex, currentOptions, isAnswered,
                            selectedOption, repeated >>
    /\ op' = "handleNext"
    /\ UNCHANGED << questions, selectedDomain, deck, timer, stats,
                    deck0, correctIds, startedDirty, missed >>

\* NEW QUIZ, rendered in SUMMARY.
resetToSetup ==
    /\ gameState = "SUMMARY"
    /\ gameState' = "SETUP"
    /\ op' = "resetToSetup"
    /\ UNCHANGED << questions, selectedDomain, deck, currentIndex, currentOptions,
                    selectedOption, isAnswered, timer, isActive, stats,
                    repeated, deck0, correctIds, startedDirty, missed >>

Next ==
    \/ \E d \in {"ALL"} \cup Domain : SetSelectedDomain(d)
    \/ startGame
    \/ handleExit
    \/ Tick
    \/ TimerEffect
    \/ \E option \in Range(currentOptions) : handleOptionClick(option)
    \/ handleNext
    \/ resetToSetup

Spec == Init /\ [][Next]_vars

\* The interval fires every second while it exists, and React runs the
\* effect of every render; the user's actions are under no obligation.
SpecFair == Spec /\ WF_vars(Tick) /\ WF_vars(TimerEffect)

(***************************************************************************)
(* generateOptions on its own: the question list is any universe of up to  *)
(* MaxUniverse questions with ids 1..n, up to the order of the questions   *)
(* and the names of domains and answer texts (domains in two runs, answer  *)
(* texts numbered by first occurrence); the step is the call               *)
(* generateOptions(deck[i], questions) of startGame and handleNext, taken  *)
(* once per behaviour.                                                     *)
(***************************************************************************)
AnswerTexts == << "a1", "a2", "a3", "a4", "a5", "a6", "a7", "a8" >>

AnswerPatterns(n) ==
    { f \in [1..n -> 1..MaxAnswer] :
        /\ f[1] = 1
        /\ \A k \in 2..n : \E j \in 1..(k - 1) : f[k] <= f[j] + 1 }

DomainPatterns(n) ==
    { f \in [1..n -> {"NPF", "ACI"}] :
        /\ f[1] = "NPF"
        /\ \A k \in 1..(n - 1) : f[k] = "ACI" => f[k + 1] = "ACI" }

Universes ==
    UNION { { [k \in 1..n |-> [id |-> k, domain |-> d[k], a |-> AnswerTexts[f[k]]]] :
                d \in DomainPatterns(n), f \in AnswerPatterns(n) } :
            n \in 1..MaxUniverse }

InitOptions ==
    /\ questions \in Universes
    /\ gameState = "SETUP"
    /\ selectedDomain = "ALL"
    /\ deck = << >>
    /\ currentIndex = 0
    /\ currentOptions = << >>
    /\ selectedOption = NULL
    /\ isAnswered = FALSE
    /\ timer = TIMER_START
    /\ isActive = FALSE
    /\ stats = ZeroStats
    /\ op = "init"
    /\ repeated = NULL
    /\ deck0 = << >>
    /\ correctIds = {}
    /\ startedDirty = FALSE
    /\ missed = << >>

GenerateStep ==
    /\ op = "init"
    /\ \E i \in 1..Len(questions) :
         /\ deck' = questions
         /\ currentIndex' = i - 1
         /\ currentOptions' \in generateOptions(questions[i], questions)
    /\ op' = "generateOptions"
    /\ UNCHANGED << questions, gameState, selectedDomain, selectedOption,
                    isAnswered, timer, isActive, stats,
                    repeated, deck0, correctIds, startedDirty, missed >>

NextOptions == GenerateStep

SpecOptions == InitOptions /\ [][NextOptions]_vars

(***************************************************************************)
(* Properties                                                              *)
(***************************************************************************)
Ids(qs) == { qs[k].id : k \in 1..Len(qs) }

\* C1: in every reachable state the requeued tally equals the wrong tally and
\* totalAnswered is the sum of the correct and the wrong tally.
C1_StatsInvariant ==
    /\ stats.requeued = stats.wrong
    /\ stats.totalAnswered = stats.correct + stats.wrong

\* A card was answered wrongly, a later one correctly.
C1_Witness ==
    /\ op = "handleOptionClick"
    /\ stats.wrong > 0 /\ stats.correct > 0

\* C2: a call of handleOptionClick on a card that is already answered, with
\* any option, leaves stats, deck, selectedOption and isAnswered as they are.
C2_SubmitIdempotent ==
    [][ (isAnswered /\ op' = "handleOptionClick")
          => UNCHANGED << stats, deck, selectedOption, isAnswered >> ]_vars

\* A wrongly answered card was clicked again, on another option.
C2_Witness ==
    /\ op = "handleOptionClick" /\ repeated = "other"
    /\ isAnswered /\ selectedOption # currentCard.a

\* C3: for a universe of at least 4 questions every result of generateOptions
\* has exactly 4 pairwise distinct strings, exactly one of them the correct
\* answer of the target question.
C3_FourDistinctOptions ==
    (op = "generateOptions" /\ Len(questions) >= 4)
      => /\ Len(currentOptions) = 4
         /\ Cardinality(Range(currentOptions)) = 4
         /\ Cardinality({ k \in 1..Len(currentOptions) :
                            currentOptions[k] = currentCard.a }) = 1

\* C4: startGame with a domain filter that matches no question leaves the
\* phase in SETUP and the timer stopped.
C4_EmptyPoolStaysInSetup ==
    (op = "startGame" /\ Filtered(questions, selectedDomain) = << >>)
      => (gameState = "SETUP" /\ ~isActive)

\* C5: the timer runs only in PLAYING, every step that leaves PLAYING stops
\* it, and outside PLAYING the remaining time changes only by startGame.
C5_TimerStoppedOutsidePlaying ==
    /\ [](isActive => gameState = "PLAYING")
    /\ [][ (gameState = "PLAYING" /\ gameState' # "PLAYING") => ~isActive' ]_vars
    /\ [][ (gameState # "PLAYING" /\ timer' # timer) => op' = "startGame" ]_vars

\* The timer has ticked and the session was then left before the timeout.
C5_Witness ==
    /\ gameState # "PLAYING" /\ ~isActive
    /\ timer > 0 /\ timer < TIMER_START

\* C6: with the remaining time 0 in PLAYING the timeout is due whether or not
\* the card is answered, and the next step is the move to SUMMARY with the
\* timer stopped and stats, deck and cursor unchanged.
C6_TimeoutEndsSession ==
    /\ [](EffectPending => ENABLED TimerEffect)
    /\ [][ EffectPending
             => /\ gameState' = "SUMMARY" /\ ~isActive'
                /\ UNCHANGED << stats, deck, currentIndex >> ]_vars

\* The timeout struck on the unanswered second card, one card answered before.
C6_Witness ==
    /\ gameState = "SUMMARY" /\ op = "timerEffect"
    /\ ~isAnswered /\ currentIndex = 1 /\ stats.totalAnswered = 1

\* C7: handleExit ends in SETUP, and startGame with a non-empty pool yields
\* zero stats, cursor 0, the full timer running, no answer and no selection,
\* whatever the previous session left behind.
C7_ExitThenFreshStart ==
    /\ op = "handleExit" => gameState = "SETUP"
    /\ (op = "startGame" /\ Len(deck) > 0)
         => /\ gameState = "PLAYING"
            /\ stats = ZeroStats
            /\ currentIndex = 0
            /\ timer = TIMER_START /\ isActive
            /\ ~isAnswered /\ selectedOption = NULL

\* startGame ran right after the exit from a session with answers given,
\* cursor advanced, time elapsed and the card answered.
C7_Witness ==
    /\ op = "startGame" /\ startedDirty /\ Len(deck) > 0

\* C8: when handleNext ends the session, every question of the initial deck
\* has been answered correctly, stats.correct is the size of the initial
\* deck and the deck has grown by one entry per wrong answer.
C8_FinishedMeansAllCorrect ==
    (gameState = "SUMMARY" /\ op = "handleNext")
      => /\ Ids(deck0) \subseteq correctIds
         /\ stats.correct = Len(deck0)
         /\ Len(deck) = Len(deck0) + stats.wrong

\* Two questions, one miss: deck of 3, stats 2 / 1 / 1 / 3.
C8_Witness ==
    /\ gameState = "SUMMARY" /\ op = "handleNext"
    /\ Len(deck0) = 2 /\ Len(deck) = 3
    /\ stats = [correct |-> 2, wrong |-> 1, requeued |-> 1, totalAnswered |-> 3]

\* C9: no step other than startGame decreases the cursor or the deck length,
\* or changes an entry the deck already has.
C9_DeckMonotone ==
    [][ op' # "startGame"
          => /\ currentIndex' >= currentIndex
             /\ Len(deck') >= Len(deck)
             /\ SubSeq(deck', 1, Len(deck)) = deck ]_vars

\* The deck has grown and the cursor has moved on to the re-queued entry.
C9_Witness ==
    /\ op = "handleNext" /\ gameState = "PLAYING"
    /\ Len(deck) > Len(deck0) /\ currentIndex + 1 > Len(deck0)

\* C10: the phase changes only SETUP -> PLAYING by startGame, PLAYING ->
\* SUMMARY by handleNext on the last card or by the timeout, SUMMARY -> SETUP
\* by the reset, PLAYING -> SETUP by handleExit.
C10_PhaseTransitions ==
    [][ gameState' # gameState
          => \/ /\ gameState = "SETUP" /\ gameState' = "PLAYING"
                /\ op' = "startGame"
             \/ /\ gameState = "PLAYING" /\ gameState' = "SUMMARY"
                /\ \/ op' = "handleNext" /\ currentIndex = Len(deck) - 1
                   \/ op' = "timerEffect" /\ timer = 0
             \/ /\ gameState = "SUMMARY" /\ gameState' = "SETUP"
                /\ op' = "resetToSetup"
             \/ /\ gameState = "PLAYING" /\ gameState' = "SETUP"
                /\ op' = "handleExit" ]_vars

\* A session was timed out and the summary was then reset to the setup.
C10_Witness ==
    /\ gameState = "SETUP" /\ op = "resetToSetup" /\ timer = 0

(***************************************************************************)
(* accuracy. The source computes Math.round((correct / totalAnswered) *    *)
(* 100) on Numbers, IEEE 754 doubles: the quotient is rounded to 53        *)
(* significant bits, the product with 100 is rounded again, and Math.round *)
(* takes the nearest integer of that, halves up. A positive double is      *)
(* [sig, exp]: sig its 53-bit significand, at least 2^52, held as three    *)
(* limbs hi * 2^36 + mid * 2^18 + lo, and exp the exponent of its first    *)
(* bit, so the value is sig * 2^(exp - 52).                                *)
(***************************************************************************)
RECURSIVE Pow2(_)
Pow2(k) == IF k = 0 THEN 1 ELSE 2 * Pow2(k - 1)

Limb == Pow2(18)

\* The limbs of hi * 2^36 + mid * 2^18 + lo with mid and lo below 2^18.
Carried(hi, mid, lo) ==
    LET m == mid + lo \div Limb
    IN [hi |-> hi + m \div Limb, mid |-> m % Limb, lo |-> lo % Limb]

\* The least k with c * 2^k >= t.
RECURSIVE Shifts(_, _)
Shifts(c, t) == IF c >= t THEN 0 ELSE 1 + Shifts(2 * c, t)

\* Round to nearest, ties to even: sig the 53 bits kept, up whether the
\* part cut off is more than half a unit, tie whether it is exactly half.
RoundedDouble(sig, exp, up, tie) ==
    IF up \/ (tie /\ sig.lo % 2 = 1)
    THEN LET inc == Carried(sig.hi, sig.mid, sig.lo + 1)
         IN IF inc.hi = Pow2(17)
            THEN [sig |-> [hi |-> Pow2(16), mid |-> 0, lo |-> 0],
                  exp |-> exp + 1]
            ELSE [sig |-> inc, exp |-> exp]
    ELSE [sig |-> sig, exp |-> exp]

\* c / t as a double, for 0 < c <= t < 2^12: long division of c * 2^k by t,
\* 17 bits and twice 18 bits, then the remainder against half of t.
Divide(c, t) ==
    LET k == Shifts(c, t)
        n2 == c * Pow2(k) * Pow2(16)
        n1 == (n2 % t) * Limb
        n0 == (n1 % t) * Limb
    IN RoundedDouble([hi |-> n2 \div t, mid |-> n1 \div t, lo |-> n0 \div t],
                     0 - k, 2 * (n0 % t) > t, 2 * (n0 % t) = t)

\* x * 100 as a double: the exact product has 59 or 60 bits, of which the
\* last 6 or 7 are cut off and rounded.
Times100(x) ==
    LET prod == Carried(100 * x.sig.hi, 100 * x.sig.mid, 100 * x.sig.lo)
        cut == IF prod.hi >= Pow2(23) THEN 7 ELSE 6
        tail == prod.lo % Pow2(cut)
        kept == [hi |-> prod.hi \div Pow2(cut),
                 mid |-> prod.mid \div Pow2(cut)
                           + (prod.hi % Pow2(cut)) * Pow2(18 - cut),
                 lo |-> prod.lo \div Pow2(cut)
                           + (prod.mid % Pow2(cut)) * Pow2(18 - cut)]
    IN RoundedDouble(kept, x.exp + cut,
                     tail > Pow2(cut - 1), tail = Pow2(cut - 1))

\* Math.round(x) for a double 0 < x < 2^17: the integer part, plus 1 when the
\* fraction is at least one half. The bit worth one half lies in sig.hi.
MathRound(x) ==
    IF x.exp < 0 - 1 THEN 0
    ELSE LET halves == x.sig.hi \div Pow2(15 - x.exp)
         IN (halves \div 2) + (halves % 2)

\* const accuracy = stats.totalAnswered > 0
\*   ? Math.round((stats.correct / stats.totalAnswered) * 100) : 0;
accuracy ==
    IF stats.totalAnswered > 0
    THEN IF stats.correct = 0 THEN 0
         ELSE MathRound(Times100(Divide(stats.correct, stats.totalAnswered)))
    ELSE 0

(***************************************************************************)
(* shuffle on its own: the question list is any array of up to MaxShuffle  *)
(* entries taken from the bank, repeats included. ShuffleStep is a call    *)
(* shuffle(questions): deck0 is the argument after the call, deck the      *)
(* result. startGame is the call as the program makes it.                  *)
(***************************************************************************)
RECURSIVE SeqsUpTo(_, _)
SeqsUpTo(S, n) ==
    IF n = 0 THEN { << >> }
    ELSE LET shorter == SeqsUpTo(S, n - 1)
         IN shorter \cup { Append(q, x) : q \in shorter, x \in S }

InitShuffle ==
    /\ questions \in SeqsUpTo(Range(QuestionBank), MaxShuffle)
    /\ gameState = "SETUP"
    /\ selectedDomain \in {"ALL"} \cup Domain
    /\ deck = << >>
    /\ currentIndex = 0
    /\ currentOptions = << >>
    /\ selectedOption = NULL
    /\ isAnswered = FALSE
    /\ timer = TIMER_START
    /\ isActive = FALSE
    /\ stats = ZeroStats
    /\ op = "init"
    /\ repeated = NULL
    /\ deck0 = << >>
    /\ correctIds = {}
    /\ startedDirty = FALSE
    /\ missed = << >>

ShuffleStep ==
    /\ op = "init"
    /\ \E call \in ShuffleCall(questions) :
         /\ deck0' = call.array
         /\ deck' = call.newArr
    /\ op' = "shuffle"
    /\ UNCHANGED << questions, gameState, selectedDomain, currentIndex,
                    currentOptions, selectedOption, isAnswered, timer, isActive,
                    stats, repeated, correctIds, startedDirty, missed >>

NextShuffle == ShuffleStep \/ startGame

SpecShuffle == InitShuffle /\ [][NextShuffle]_vars

Count(x, xs) == Cardinality({ k \in 1..Len(xs) : xs[k] = x })

SameElements(xs, ys) ==
    /\ Len(xs) = Len(ys)
    /\ \A x \in Range(xs) \cup Range(ys) : Count(x, xs) = Count(x, ys)

\* C13: every array shuffle can return has the length and the elements of
\* its argument, each as often as the argument has it, and the argument is
\* left as it was; so the deck startGame builds has every question that
\* matches the filter exactly as often as the question list has it.
C13_ShufflePermutes ==
    /\ op = "shuffle" => (SameElements(deck, questions) /\ deck0 = questions)
    /\ op = "startGame"
         => SameElements(deck, Filtered(questions, selectedDomain))

\* An array of 4 entries with a repeat came back in another order.
C13_Witness ==
    /\ op = "shuffle" /\ Len(questions) = 4
    /\ Cardinality(Range(questions)) = 2
    /\ deck # questions

\* C11: under weak fairness of the tick and of the timeout, every state in
\* PLAYING is followed by a state in SUMMARY or SETUP.
C11_SessionTerminates ==
    (gameState = "PLAYING") ~> (gameState \in {"SUMMARY", "SETUP"})

\* A session in which the user has only answered wrongly, so that the deck
\* has grown by MaxWrong entries, was ended by the timeout.
C11_Witness ==
    /\ gameState = "SUMMARY" /\ op = "timerEffect"
    /\ stats.correct = 0 /\ stats.wrong = MaxWrong
    /\ Len(deck) = Len(deck0) + MaxWrong

\* C12: while the current card is not answered no handleNext step is taken:
\* the cursor, the deck, the stats and the options stay as they are until
\* the card is answered, and only the timeout ends the session.
C12_NoAdvanceUnanswered ==
    [][ (gameState = "PLAYING" /\ ~isAnswered)
          => /\ op' # "handleNext"
             /\ currentIndex' = currentIndex
             /\ currentOptions' = currentOptions
             /\ gameState' = "SUMMARY" => op' = "timerEffect"
             /\ op' # "handleOptionClick"
                  => UNCHANGED << deck, stats, isAnswered, selectedOption >> ]_vars

\* The last card of a deck of two waits unanswered while the timer ticks.
C12_Witness ==
    /\ gameState = "PLAYING" /\ op = "tick"
    /\ ~isAnswered /\ currentIndex = 1 /\ Len(deck) = 2

(***************************************************************************)
(* accuracy on its own: a session whose time has run out, with any tally   *)
(* of up to MaxCorrect correct and MaxMissed wrong answers. The timeout    *)
(* shows the summary, which renders accuracy (line 283).                   *)
(***************************************************************************)
InitAccuracy ==
    /\ questions = QuestionBank
    /\ gameState = "PLAYING"
    /\ selectedDomain = "ALL"
    /\ deck = << >>
    /\ currentIndex = 0
    /\ currentOptions = << >>
    /\ selectedOption = NULL
    /\ isAnswered = FALSE
    /\ timer = 0
    /\ isActive = TRUE
    /\ \E c \in 0..MaxCorrect, w \in 0..MaxMissed :
         stats = [correct |-> c, wrong |-> w, requeued |-> w,
                  totalAnswered |-> c + w]
    /\ op = "init"
    /\ repeated = NULL
    /\ deck0 = << >>
    /\ correctIds = {}
    /\ startedDirty = FALSE
    /\ missed = << >>

NextAccuracy == TimerEffect

SpecAccuracy == InitAccuracy /\ [][NextAccuracy]_vars

\* C14: the accuracy shown in the summary is 0 when nothing was answered and
\* otherwise the integer nearest to 100 * correct / totalAnswered, halves
\* rounded up; it lies in 0..100.
C14_AccuracyNearest ==
    gameState = "SUMMARY"
      => /\ accuracy \in 0..100
         /\ accuracy = IF stats.totalAnswered = 0 THEN 0
                       ELSE (200 * stats.correct + stats.totalAnswered)
                              \div (2 * stats.totalAnswered)

\* C15: a handleNext step is taken on an answered card; it ends in SUMMARY
\* exactly when the cursor is the last index of the deck as it is then, and
\* otherwise moves the cursor on by 1, clears isAnswered and selectedOption,
\* generates the options of the new current card and stays in PLAYING. After
\* a wrong answer it never ends the session, and after a wrong answer on the
\* last card the new current card is the copy appended by that answer.
C15_AdvanceOrFinish ==
    [][ op' = "handleNext"
          => /\ isAnswered
             /\ gameState' = "SUMMARY" <=> currentIndex = Len(deck) - 1
             /\ currentIndex = Len(deck) - 1
                  => /\ ~isActive'
                     /\ UNCHANGED << deck, currentIndex, stats >>
             /\ currentIndex # Len(deck) - 1
                  => /\ gameState' = "PLAYING"
                     /\ currentIndex' = currentIndex + 1
                     /\ ~isAnswered'
                     /\ selectedOption' = NULL
                     /\ currentOptions'
                          \in generateOptions(deck[currentIndex + 2], questions)
                     /\ UNCHANGED << deck, stats, isActive >>
             /\ selectedOption # currentCard.a
                  => /\ gameState' = "PLAYING"
                     /\ currentIndex = Len(deck) - 2
                          => deck'[currentIndex' + 1] = currentCard ]_vars

\* The last card of the initial deck was the only one missed, and handleNext
\* has moved on to its copy at the tail.
C15_Witness ==
    /\ gameState = "PLAYING" /\ op = "handleNext"
    /\ Len(deck0) >= 2
    /\ currentIndex = Len(deck0) /\ Len(deck) = Len(deck0) + 1
    /\ stats.correct = Len(deck0) - 1 /\ stats.wrong = 1
    /\ missed = << deck0[Len(deck0)] >>
    /\ currentCard = deck0[Len(deck0)]

\* C16: a click that answers the current card wrongly appends the current
\* card to the deck and leaves the entries before it and the cursor as they
\* are; any other click leaves deck and cursor unchanged. So the deck is
\* always the deck the session started with followed by the missed cards in
\* the order they were missed.
C16_RequeueAppends ==
    /\ [](deck = deck0 \o missed)
    /\ [][ op' = "handleOptionClick"
             => /\ currentIndex' = currentIndex
                /\ IF ~isAnswered /\ selectedOption' # currentCard.a
                   THEN /\ Len(deck') = Len(deck) + 1
                        /\ deck'[Len(deck')] = currentCard
                        /\ SubSeq(deck', 1, Len(deck)) = deck
                   ELSE deck' = deck ]_vars

\* Two different cards have been missed, and their copies stand behind the
\* initial deck in that order.
C16_Witness ==
    /\ op = "handleOptionClick"
    /\ Len(missed) = 2 /\ missed[1] # missed[2]
    /\ Len(deck) = Len(deck0) + 2
    /\ deck[Len(deck0) + 1] = missed[1]
    /\ deck[Len(deck0) + 2] = missed[2]
    /\ currentIndex = 1

\* The questions of the list other than the current card, and those of them
\* in the current card's domain.
Others == { q \in Range(questions) : q.id # currentCard.id }

SameDomainOthers == { q \in Others : q.domain = currentCard.domain }

\* C17: a result of generateOptions is the target's answer and at most 3
\* distractors; when at least 3 questions other than the target are of the
\* target's domain every distractor is the answer of one of those, otherwise
\* every distractor is the answer of some question other than the target.
C17_DomainPreference ==
    op = "generateOptions"
      => \E k \in 1..Len(currentOptions) :
           /\ currentOptions[k] = currentCard.a
           /\ Len(currentOptions) - 1 <= 3
           /\ \A j \in 1..Len(currentOptions) \ {k} :
                IF Cardinality(SameDomainOthers) >= 3
                THEN \E q \in SameDomainOthers : currentOptions[j] = q.a
                ELSE \E q \in Others : currentOptions[j] = q.a

\* Three other questions share the target's domain, a question of another
\* domain has an answer none of them has, and three distractors were drawn.
C17_Witness ==
    /\ op = "generateOptions"
    /\ Cardinality(SameDomainOthers) >= 3
    /\ \E q \in Others \ SameDomainOthers :
         /\ q.a # currentCard.a
         /\ \A r \in SameDomainOthers : r.a # q.a
    /\ Len(currentOptions) = 4

\* C18: the timer is always within 0..TIMER_START; it changes only by
\* startGame, which sets it to TIMER_START, or by a tick taken while isActive
\* holds in PLAYING with a timer above 0, and every tick takes exactly 1 off.
C18_TimerMoves ==
    /\ [](timer \in 0..TIMER_START)
    /\ [][ /\ op' = "tick" => timer' = timer - 1
           /\ timer' # timer
                => \/ op' = "startGame" /\ timer' = TIMER_START
                   \/ /\ op' = "tick"
                      /\ isActive /\ gameState = "PLAYING" /\ timer > 0 ]_vars

\* The last tick has brought the timer of a running session to 0.
C18_Witness ==
    /\ op = "tick" /\ timer = 0
    /\ isActive /\ gameState = "PLAYING"

\* C19: once a session has been started with a non-empty pool,
\* stats.totalAnswered is the cursor, plus 1 when the current card is
\* answered: each position before the cursor was answered once, the current
\* one at most once.
C19_TotalFollowsCursor ==
    Len(deck0) > 0
      => stats.totalAnswered = currentIndex + (IF isAnswered THEN 1 ELSE 0)

\* The third position of the deck has just been answered, after a miss.
C19_Witness ==
    /\ gameState = "PLAYING" /\ op = "handleOptionClick"
    /\ currentIndex = 2 /\ isAnswered
    /\ stats.wrong >= 1 /\ stats.totalAnswered = 3

\* C20: in PLAYING, in a session started with a non-empty pool, the cursor
\* designates an entry of the deck and currentOptions is one of the arrays
\* generateOptions returns for that entry, so the entry's answer is among the
\* options.
C20_OptionsOfCurrentCard ==
    (gameState = "PLAYING" /\ Len(deck0) > 0)
      => /\ currentIndex \in 0..(Len(deck) - 1)
         /\ currentOptions \in generateOptions(currentCard, questions)
         /\ \E k \in 1..Len(currentOptions) : currentOptions[k] = currentCard.a

\* handleNext has moved to a card whose options the card before it could not
\* have had.
C20_Witness ==
    /\ gameState = "PLAYING" /\ op = "handleNext"
    /\ Len(deck0) > 0 /\ currentIndex >= 1
    /\ currentOptions \notin generateOptions(deck[currentIndex], questions)

====
